---- MODULE Spec2Model ----
(***************************************************************************)
(* Model of the Log mode and Diff mode state machines (src/mode/log.rs,    *)
(* src/mode/diff.rs) and of the diff parser/formatter of diff.rs.          *)
(*                                                                         *)
(* Strings the code inspects (diff lines, markup) are sequences of         *)
(* one-character strings; "\n" is the newline character.  Strings the code *)
(* only stores and compares (error messages, hashes) are TLA+ strings.     *)
(* Indices into Rust vectors and strings are 0-based, as in the code.      *)
(***************************************************************************)
EXTENDS Integers, Sequences, FiniteSets, TLC

(***************************************************************************)
(* Bounds of the model.                                                    *)
(***************************************************************************)
\* longest entry list the backend pages may build up
MaxEntries == 2
\* worker threads alive at once
MaxWorkers == 2
\* events queued in the channel at once
MaxChannel == 1
\* lines of the diff texts the parser specification feeds to the parser
MaxLines == 6
\* rows of the viewport left for a mode's content
AvailableHeight == 5

(***************************************************************************)
(* Rust string primitives used by diff.rs.                                 *)
(***************************************************************************)
\* s[from..] for 0-based from <= len
StrFrom(s, from) == SubSeq(s, from + 1, Len(s))

\* s[..to] for 0-based to <= len
StrTo(s, to) == SubSeq(s, 1, to)

\* str::starts_with
StartsWith(s, prefix) ==
    /\ Len(prefix) <= Len(s)
    /\ SubSeq(s, 1, Len(prefix)) = prefix

\* str::find: the 0-based position of the first occurrence, -1 for None
Find(s, pat) ==
    LET hits == {i \in 0..(Len(s) - Len(pat)) : SubSeq(s, i + 1, i + Len(pat)) = pat}
    IN  IF hits = {} THEN -1 ELSE CHOOSE i \in hits : \A j \in hits : i <= j

Digits == <<"0", "1", "2", "3", "4", "5", "6", "7", "8", "9">>

IsDigit(c) == \E d \in 1..10 : Digits[d] = c

DigitValue(c) == (CHOOSE d \in 1..10 : Digits[d] = c) - 1

RECURSIVE DecimalValue(_)
DecimalValue(s) ==
    IF s = <<>> THEN 0
    ELSE 10 * DecimalValue(SubSeq(s, 1, Len(s) - 1)) + DigitValue(s[Len(s)])

\* u32::MAX in decimal
U32_MAX == <<"4", "2", "9", "4", "9", "6", "7", "2", "9", "5">>

RECURSIVE StripZeros(_)
StripZeros(s) == IF Len(s) > 1 /\ s[1] = "0" THEN StripZeros(Tail(s)) ELSE s

RECURSIVE DigitsGreater(_, _)
\* a > b for digit strings of one length
DigitsGreater(a, b) ==
    IF a = <<>> THEN FALSE
    ELSE IF a[1] # b[1] THEN DigitValue(a[1]) > DigitValue(b[1])
    ELSE DigitsGreater(Tail(a), Tail(b))

\* whether a digit string is a number above u32::MAX
OverflowsU32(s) ==
    LET n == StripZeros(s)
    IN  Len(n) > Len(U32_MAX) \/ (Len(n) = Len(U32_MAX) /\ DigitsGreater(n, U32_MAX))

\* str::parse::<u32>: an optional "+" and at least one digit, no overflow;
\* -1 for Err
ParseU32(s) ==
    LET body == IF s # <<>> /\ s[1] = "+" THEN Tail(s) ELSE s
    IN  IF body = <<>> \/ \E i \in 1..Len(body) : ~IsDigit(body[i]) THEN -1
        ELSE IF OverflowsU32(body) THEN -1
        ELSE DecimalValue(StripZeros(body))

RECURSIVE DecimalString(_)
\* the Display formatting of an unsigned integer
DecimalString(n) ==
    IF n < 10 THEN <<Digits[n + 1]>>
    ELSE Append(DecimalString(n \div 10), Digits[(n % 10) + 1])

(***************************************************************************)
(* String literals of diff.rs.                                             *)
(***************************************************************************)
STR_DIFF_GIT == <<"d", "i", "f", "f", " ", "-", "-", "g", "i", "t">>
STR_B_SLASH == <<" ", "b", "/">>
STR_MINUSES == <<"-", "-", "-">>
STR_PLUSES == <<"+", "+", "+">>
STR_AT_AT_SP == <<"@", "@", " ">>
STR_SP_PLUS == <<" ", "+">>
STR_COMMA == <<",">>
STR_DELETED == <<"d", "e", "l", "e", "t", "e", "d">>
STR_SP_AT_AT_SP == <<" ", "@", "@", " ">>
NL == <<"\n">>
DIFF_FORMAT_FILE_HEADER_LINE == <<"@", "@", "@", "L">>
DIFF_FORMAT_FILE_HEADER_CONTENT == <<"@", "@", "@", "H">>
DIFF_FORMAT_LINE_HEADER == <<"@", "@", "@", "N">>
STR_COLON_SP == <<":", " ">>
STR_AT_MINUSES_SP == <<"@", "-", "-", "-", " ">>
STR_COLON_LINE_SP == <<":", "L", "i", "n", "e", " ">>
STR_SP_MINUSES_AT == <<" ", "-", "-", "-", "@">>

\* the Debug formatting of FileMode
FileModeDebug(mode) == IF mode = "Modified" THEN <<"M", "o", "d", "i", "f", "i", "e", "d">> ELSE <<"D", "e", "l", "e", "t", "e", "d">>

(***************************************************************************)
(* The diff parser: ParseEvent, ParseState and FilesDiff.                  *)
(***************************************************************************)
\* a ParseEvent; tag "Panic" stands for an unwrap() of None/Err inside new()
Event(tag, filename, mode, line_number) ==
    [tag |-> tag, filename |-> filename, mode |-> mode, line_number |-> line_number]

PanicEvent == Event("Panic", <<>>, "Modified", 0)

\* the line number of a hunk marker line, -1 when an unwrap() panics
HunkLineNumber(line) ==
    LET pos == Find(line, STR_SP_PLUS)
    IN  IF pos = -1 THEN -1
        ELSE LET line_number == StrFrom(line, pos + 2)
                 comma == Find(line_number, STR_COMMA)
             IN  IF comma = -1 THEN 0
                 ELSE ParseU32(StrTo(line_number, comma))

\* ParseEvent::new
ParseEventNew(state, line) ==
    IF StartsWith(line, STR_DIFF_GIT) THEN
        LET pos == Find(line, STR_B_SLASH)
        IN  IF pos = -1 THEN PanicEvent
            ELSE Event("FileDiffStart", StrFrom(line, pos + 3), "Modified", 0)
    ELSE IF StartsWith(line, STR_MINUSES) THEN Event("FileDiffContent", <<>>, "Modified", 0)
    ELSE IF StartsWith(line, STR_PLUSES) THEN Event("FileDiffEnd", <<>>, "Modified", 0)
    ELSE IF StartsWith(line, STR_AT_AT_SP) THEN
        IF HunkLineNumber(line) = -1 THEN PanicEvent
        ELSE Event("LineDiffStart", <<>>, "Modified", HunkLineNumber(line))
    ELSE IF state.tag = "FileHeader" THEN
        IF StartsWith(line, STR_DELETED) THEN Event("FileDiffMode", <<>>, "Deleted", 0)
        ELSE Event("FileDiffContent", <<>>, "Modified", 0)
    ELSE IF state.tag = "FileContent" THEN Event("FileDiffContent", <<>>, "Modified", 0)
    ELSE Event("LineDiffContent", <<>>, "Modified", 0)

\* a ParseState; tag "Panic" stands for a panic while computing the next state
PState(tag, filename, mode, line_number) ==
    [tag |-> tag, filename |-> filename, mode |-> mode, line_number |-> line_number]

ParseStart == PState("Start", <<>>, "Modified", 0)

ParsePanic == PState("Panic", <<>>, "Modified", 0)

\* a Start arm that takes any first line as the content of a file header
ParseStateLineStartLenient(parse_event) ==
    IF parse_event.tag = "FileDiffStart"
    THEN PState("FileHeader", parse_event.filename, parse_event.mode, 0)
    ELSE PState("FileContent", <<>>, "Modified", 0)

\* the arm of ParseState::line for ParseState::Start
ParseStateLineStart(parse_event) ==
    IF parse_event.tag = "FileDiffStart"
    THEN PState("FileHeader", parse_event.filename, parse_event.mode, 0)
    ELSE ParsePanic

\* a transition function that skips what it does not expect after a hunk marker
ParseStateLineSkipping(state, line) ==
    LET parse_event == ParseEventNew(state, line)
    IN  IF parse_event.tag = "Panic" THEN ParsePanic
        ELSE CASE state.tag = "Start" -> ParseStateLineStart(parse_event)
               [] state.tag = "FileHeader" ->
                    IF parse_event.tag = "FileDiffMode"
                    THEN PState("FileMode", <<>>, parse_event.mode, 0)
                    ELSE PState("FileContent", <<>>, "Modified", 0)
               [] state.tag = "FileMode" -> PState("FileContent", <<>>, "Modified", 0)
               [] state.tag = "FileContent" ->
                    IF parse_event.tag = "FileDiffEnd"
                    THEN PState("FileEnd", <<>>, "Modified", 0)
                    ELSE PState("FileContent", <<>>, "Modified", 0)
               [] state.tag = "FileEnd" ->
                    IF parse_event.tag = "LineDiffStart"
                    THEN PState("LineHeader", <<>>, "Modified", parse_event.line_number)
                    ELSE ParsePanic
               [] state.tag = "LineHeader" ->
                    IF parse_event.tag = "LineDiffContent"
                    THEN PState("LineContent", <<>>, "Modified", 0)
                    ELSE PState("FileContent", <<>>, "Modified", 0)
               [] state.tag = "LineContent" ->
                    IF parse_event.tag = "LineDiffContent"
                    THEN PState("LineContent", <<>>, "Modified", 0)
                    ELSE IF parse_event.tag = "FileDiffStart"
                    THEN PState("FileHeader", parse_event.filename, parse_event.mode, 0)
                    ELSE IF parse_event.tag = "LineDiffStart"
                    THEN PState("LineHeader", <<>>, "Modified", parse_event.line_number)
                    ELSE ParsePanic
               [] OTHER -> ParsePanic

\* ParseState::line
ParseStateLine(state, line) ==
    LET parse_event == ParseEventNew(state, line)
    IN  IF parse_event.tag = "Panic" THEN ParsePanic
        ELSE CASE state.tag = "Start" -> ParseStateLineStart(parse_event)
               [] state.tag = "FileHeader" ->
                    IF parse_event.tag = "FileDiffMode"
                    THEN PState("FileMode", <<>>, parse_event.mode, 0)
                    ELSE PState("FileContent", <<>>, "Modified", 0)
               [] state.tag = "FileMode" -> PState("FileContent", <<>>, "Modified", 0)
               [] state.tag = "FileContent" ->
                    IF parse_event.tag = "FileDiffEnd"
                    THEN PState("FileEnd", <<>>, "Modified", 0)
                    ELSE PState("FileContent", <<>>, "Modified", 0)
               [] state.tag = "FileEnd" ->
                    IF parse_event.tag = "LineDiffStart"
                    THEN PState("LineHeader", <<>>, "Modified", parse_event.line_number)
                    ELSE ParsePanic
               [] state.tag = "LineHeader" ->
                    IF parse_event.tag = "LineDiffContent"
                    THEN PState("LineContent", <<>>, "Modified", 0)
                    ELSE ParsePanic
               [] state.tag = "LineContent" ->
                    IF parse_event.tag = "LineDiffContent"
                    THEN PState("LineContent", <<>>, "Modified", 0)
                    ELSE IF parse_event.tag = "FileDiffStart"
                    THEN PState("FileHeader", parse_event.filename, parse_event.mode, 0)
                    ELSE IF parse_event.tag = "LineDiffStart"
                    THEN PState("LineHeader", <<>>, "Modified", parse_event.line_number)
                    ELSE ParsePanic
               [] OTHER -> ParsePanic

\* LineDiff::new
LineDiffNew(line_number) == [line_number |-> line_number, text |-> <<>>]

\* FileDiff::new
FileDiffNew(filename, mode) == [filename |-> filename, mode |-> mode, lines |-> <<>>]

\* the result of a FilesDiff method: the document, or a panic of unwrap()
DocOk(files) == [panic |-> FALSE, files |-> files]

DocPanic(files) == [panic |-> TRUE, files |-> files]

\* a new_file that pushes nothing
FilesDiffNewFileNothing(files, filename, mode) == DocOk(files)

\* FilesDiff::new_file
FilesDiffNewFile(files, filename, mode) == DocOk(Append(files, FileDiffNew(filename, mode)))

\* FilesDiff::file_mode
FilesDiffFileMode(files, mode) ==
    IF files = <<>> THEN DocPanic(files)
    ELSE DocOk([files EXCEPT ![Len(files)].mode = mode])

\* FilesDiff::new_line with FileDiff::new_line
FilesDiffNewLine(files, line_number) ==
    IF files = <<>> THEN DocPanic(files)
    ELSE DocOk([files EXCEPT ![Len(files)].lines = Append(@, LineDiffNew(line_number))])

\* FilesDiff::add_text
FilesDiffAddText(files, text) ==
    IF files = <<>> THEN DocPanic(files)
    ELSE IF files[Len(files)].lines = <<>> THEN DocPanic(files)
    ELSE DocOk([files EXCEPT
                  ![Len(files)].lines[Len(files[Len(files)].lines)].text = @ \o text])

\* ParseState::output, for the state just entered
ParseStateOutput(state, line, files) ==
    CASE state.tag = "FileHeader" -> FilesDiffNewFile(files, state.filename, state.mode)
      [] state.tag = "FileMode" -> FilesDiffFileMode(files, state.mode)
      [] state.tag = "LineHeader" ->
            LET added == FilesDiffNewLine(files, state.line_number)
                pos == Find(line, STR_SP_AT_AT_SP)
            IN  IF added.panic \/ pos = -1 THEN added
                ELSE FilesDiffAddText(added.files, StrFrom(line, pos + 4) \o NL)
      [] state.tag = "LineContent" -> FilesDiffAddText(files, line \o NL)
      [] OTHER -> DocOk(files)

RECURSIVE HunksOutput(_, _, _)
\* the inner loop of FilesDiff::output over file_diff.lines, from hunk i on
HunksOutput(file_diff, i, text) ==
    IF i > Len(file_diff.lines) THEN text
    ELSE HunksOutput(file_diff, i + 1,
            text \o DIFF_FORMAT_LINE_HEADER \o STR_AT_MINUSES_SP \o file_diff.filename
                 \o STR_COLON_LINE_SP \o DecimalString(file_diff.lines[i].line_number)
                 \o STR_SP_MINUSES_AT \o NL
                 \o file_diff.lines[i].text)

RECURSIVE FilesOutput(_, _, _)
\* the outer loop of FilesDiff::output, from file i on
FilesOutput(files, i, text) ==
    IF i > Len(files) THEN text
    ELSE FilesOutput(files, i + 1,
            HunksOutput(files[i], 1,
                text \o DIFF_FORMAT_FILE_HEADER_LINE \o NL
                     \o DIFF_FORMAT_FILE_HEADER_CONTENT \o FileModeDebug(files[i].mode)
                     \o STR_COLON_SP \o files[i].filename \o NL
                     \o DIFF_FORMAT_FILE_HEADER_LINE \o NL))

\* an output that starts at the second file record
FilesDiffOutputFromSecond(files) == FilesOutput(files, 2, <<>>)

\* FilesDiff::output
FilesDiffOutput(files) == FilesOutput(files, 1, <<>>)

\* the state of the loop of format_files_diff
ParseRun(parse_state, files, panic) ==
    [parse_state |-> parse_state, files |-> files, panic |-> panic]

\* one iteration of the loop of format_files_diff
ParseStep(run, line) ==
    LET next == ParseStateLine(run.parse_state, line)
    IN  IF next.tag = "Panic" THEN ParseRun(run.parse_state, run.files, TRUE)
        ELSE LET out == ParseStateOutput(next, line, run.files)
             IN  ParseRun(next, out.files, out.panic)

RECURSIVE ParseLoop(_, _, _)
\* the loop of format_files_diff over lines[i..], stopped by a panic
ParseLoop(run, lines, i) ==
    IF run.panic \/ i > Len(lines) THEN run
    ELSE ParseLoop(ParseStep(run, lines[i]), lines, i + 1)

\* format_files_diff on the lines of the text: the markup, or a panic
FormatFilesDiff(lines) ==
    LET run == ParseLoop(ParseRun(ParseStart, <<>>, FALSE), lines, 1)
    IN  [panic |-> run.panic,
         text |-> IF run.panic THEN <<>> ELSE FilesDiffOutput(run.files)]

(***************************************************************************)
(* Sample diff lines, the results of text.lines() on a backend's text.     *)
(***************************************************************************)
LINE_DIFF == <<"d", "i", "f", "f", " ", "-", "-", "g", "i", "t", " ", "a", "/", "f", " ", "b", "/", "f">>
LINE_DIFF_NO_B == <<"d", "i", "f", "f", " ", "-", "-", "g", "i", "t", " ", "a", "/", "f">>
LINE_DELETED == <<"d", "e", "l", "e", "t", "e", "d", " ", "f", "i", "l", "e">>
LINE_INDEX == <<"i", "n", "d", "e", "x", " ", "1">>
LINE_OLD == <<"-", "-", "-", " ", "a", "/", "f">>
LINE_NEW == <<"+", "+", "+", " ", "b", "/", "f">>
LINE_HUNK == <<"@", "@", " ", "-", "1", ",", "5", " ", "+", "1", "0", ",", "6", " ", "@", "@", " ", "c", "t", "x">>
LINE_HUNK_SINGLE == <<"@", "@", " ", "-", "1", " ", "+", "7", " ", "@", "@">>
LINE_HUNK_COMMA_CTX == <<"@", "@", " ", "-", "1", " ", "+", "7", " ", "@", "@", " ", "a", ",", "b">>
LINE_ADDED == <<"+", "x">>
LINE_EMPTY == <<>>
LINE_SENTINEL == <<"@", "@", "@", "H", "x">>

\* the lines the parser specification draws its input from
Vocabulary ==
    {LINE_DIFF, LINE_DIFF_NO_B, LINE_DELETED, LINE_INDEX, LINE_OLD, LINE_NEW,
     LINE_HUNK, LINE_HUNK_SINGLE, LINE_HUNK_COMMA_CTX, LINE_ADDED, LINE_EMPTY,
     LINE_SENTINEL}

\* the diff texts (as line sequences) delivered to Diff mode: an empty text, a
\* well-formed one-file diff, and a text that starts with ordinary content
DiffTexts ==
    {<<>>,
     <<LINE_DIFF, LINE_OLD, LINE_NEW, LINE_HUNK, LINE_ADDED>>,
     <<LINE_ADDED, LINE_DIFF>>}

(***************************************************************************)
(* Collaborators of the modes: Output, Filter, SelectMenu, the backend's   *)
(* values.                                                                 *)
(***************************************************************************)
Min(a, b) == IF a < b THEN a ELSE b

Max(a, b) == IF a > b THEN a ELSE b

\* the hashes of the log entries the backend returns
LogEntries == {"c1", "f2"}

\* the error messages of the backend: of a command and of log()
CommandError == "command failed"

LogError == "log failed"

\* the keys delivered to a mode
CommandKeys == {"c", "r", "R", "m", "f", "p", "P", "g"}

Keys == {"Up", "Down", "Enter", "Tab", "CtrlF"} \cup CommandKeys

ModeKinds == {"Log", "Diff", "RevisionDetails"}

\* Output::set: the text replaced, the scroll reset
OutputSet(text) == [text |-> text, scroll |-> 0]

RECURSIVE CountNewlines(_)
CountNewlines(text) ==
    IF text = <<>> THEN 0
    ELSE (IF Head(text) = "\n" THEN 1 ELSE 0) + CountNewlines(Tail(text))

\* Output::line_count
OutputLineCount(output) == CountNewlines(output.text)

\* Output::on_key: scrolling within the text
OutputOnKey(output, available_height, key) ==
    LET last_scroll == Max(OutputLineCount(output) - available_height, 0)
    IN  CASE key = "Down" -> [output EXCEPT !.scroll = Min(@ + 1, last_scroll)]
          [] key = "Up" -> [output EXCEPT !.scroll = Max(@ - 1, 0)]
          [] OTHER -> output

\* whether an entry passes the filter text
FilterMatches(text, entry) ==
    \/ text = ""
    \/ text = "c" /\ entry = "c1"

RECURSIVE VisibleFrom(_, _, _)
VisibleFrom(text, entries, i) ==
    IF i > Len(entries) THEN <<>>
    ELSE (IF FilterMatches(text, entries[i]) THEN <<i - 1>> ELSE <<>>)
         \o VisibleFrom(text, entries, i + 1)

\* Filter::filter: the 0-based indices of the entries that pass, in order
FilterFilter(filter, entries) == VisibleFrom(filter.text, entries, 1)

\* Filter::on_key while the filter has focus
FilterOnKey(filter, key) ==
    CASE key = "Enter" -> [filter EXCEPT !.focus = FALSE]
      [] key = "c" -> [filter EXCEPT !.text = "c"]
      [] OTHER -> filter

\* Filter::enter
FilterEnter(filter) == [filter EXCEPT !.focus = TRUE]

\* Filter::get_visible_index: -1 for None
GetVisibleIndex(visible, cursor) ==
    IF cursor < Len(visible) THEN visible[cursor + 1] ELSE -1

\* SelectMenu::saturate_cursor
SaturateCursor(cursor, len) == Min(cursor, Max(len - 1, 0))

\* SelectMenu::on_key
SelectOnKey(cursor, len, key) ==
    CASE key = "Down" -> Min(cursor + 1, Max(len - 1, 0))
      [] key = "Up" -> Max(cursor - 1, 0)
      [] OTHER -> cursor

(***************************************************************************)
(* Log mode (log.rs).                                                      *)
(***************************************************************************)
Idle == [tag |-> "Idle", op |-> "None"]

Waiting(op) == [tag |-> "Waiting", op |-> op]

\* Mode::default
LogModeDefault ==
    [state |-> Idle, entries |-> <<>>, output |-> OutputSet(""), visible |-> <<>>,
     cursor |-> 0, filter |-> [focus |-> FALSE, text |-> ""]]

\* a worker thread: the command f it runs first ("None" for |_| Ok(())), the
\* start of the log page it asks for, and where it stands: "cmd" before f,
\* "log" before backend.log
Worker(cmd, rev, start, pc) == [cmd |-> cmd, rev |-> rev, start |-> start, pc |-> pc]

\* the thread request() spawns
Request(cmd, rev) == Worker(cmd, rev, 0, "cmd")

\* a pagination thread that asks for the first page again
PageRequestFromZero(start) == Worker("None", "", 0, "log")

\* the thread the pagination of on_key spawns
PageRequest(start) == Worker("None", "", start, "log")

\* an event in the application's channel: a ModeResponse (mode is its variant)
\* or a mode change (mode is the target)
ResponseEvent(mode, ok, start, entries, error, text) ==
    [kind |-> "Response", mode |-> mode, from |-> mode, ok |-> ok, start |-> start,
     entries |-> entries, error |-> error, text |-> text]

ModeChangeEvent(to, from) ==
    [kind |-> "ModeChange", mode |-> to, from |-> from, ok |-> TRUE, start |-> 0,
     entries |-> <<>>, error |-> "", text |-> <<>>]

\* what a handler did: the mode after it, the threads it spawned, the events
\* it sent, and whether it panicked
Effect(mode, spawned, sent, panic) ==
    [mode |-> mode, spawned |-> spawned, sent |-> sent, panic |-> panic]

\* on_enter without the early return for a mode that is Waiting
LogOnEnterUnguarded(m) ==
    LET visible == FilterFilter(m.filter, m.entries)
    IN  Effect([m EXCEPT !.state = Waiting("Refresh"),
                         !.output = OutputSet(""),
                         !.visible = visible,
                         !.cursor = SaturateCursor(m.cursor, Len(visible))],
               <<Request("None", "")>>, <<>>, FALSE)

\* Mode::on_enter of Log mode
LogOnEnter(m) ==
    IF m.state.tag = "Waiting" THEN Effect(m, <<>>, <<>>, FALSE)
    ELSE LET visible == FilterFilter(m.filter, m.entries)
         IN  Effect([m EXCEPT !.state = Waiting("Refresh"),
                              !.output = OutputSet(""),
                              !.visible = visible,
                              !.cursor = SaturateCursor(m.cursor, Len(visible))],
                    <<Request("None", "")>>, <<>>, FALSE)

\* a filter branch that also clears the output, as on_enter does
LogOnKeyFilterClearingOutput(m, key) ==
    LET filter == FilterOnKey(m.filter, key)
        visible == FilterFilter(filter, m.entries)
    IN  Effect([m EXCEPT !.filter = filter,
                         !.output = OutputSet(""),
                         !.visible = visible,
                         !.cursor = SaturateCursor(m.cursor, Len(visible))],
               <<>>, <<>>, FALSE)

\* the branch of on_key taken while the filter has focus
LogOnKeyFilter(m, key) ==
    LET filter == FilterOnKey(m.filter, key)
        visible == FilterFilter(filter, m.entries)
    IN  Effect([m EXCEPT !.filter = filter,
                         !.visible = visible,
                         !.cursor = SaturateCursor(m.cursor, Len(visible))],
               <<>>, <<>>, FALSE)

\* a pagination that does not look at the wait state
LogPaginatesInAnyState(m, current_entry_index) ==
    /\ current_entry_index # -1
    /\ current_entry_index + 1 = Len(m.entries)

\* the pagination of on_key: whether it fires for the entry under the cursor
LogPaginates(m, current_entry_index) ==
    /\ m.state.tag = "Idle"
    /\ current_entry_index # -1
    /\ current_entry_index + 1 = Len(m.entries)

\* a pagination that does not go through the Waiting state
LogPaginationStateUngated(m) == m.state

\* the state the pagination of on_key leaves
LogPaginationState(m) == Waiting("Refresh")

\* a command key that needs the selected entry: its wait operation
LogEntryCommand(key) ==
    CASE key = "c" -> "Checkout"
      [] key = "r" -> "Reset"
      [] key = "m" -> "Merge"

\* a command key that needs no entry: its wait operation
LogPlainCommand(key) ==
    CASE key = "R" -> "Reset"
      [] key = "f" -> "Fetch"
      [] key = "p" -> "Pull"
      [] key = "P" -> "Push"
      [] key = "g" -> "Push"

\* the backend command a command key's closure calls
LogBackendCommand(key) ==
    CASE key = "c" -> "checkout"
      [] key = "r" -> "reset"
      [] key = "R" -> "reset"
      [] key = "m" -> "merge"
      [] key = "f" -> "fetch"
      [] key = "p" -> "pull"
      [] key = "P" -> "push"
      [] key = "g" -> "push_gerrit"

\* a key dispatch whose command keys are taken in any state
LogOnKeyDispatchInAnyState(m, key, current_entry_index, spawned) ==
    CASE key = "Enter" ->
            IF current_entry_index = -1 THEN Effect(m, spawned, <<>>, FALSE)
            ELSE IF current_entry_index >= Len(m.entries) THEN Effect(m, spawned, <<>>, TRUE)
            ELSE Effect(m, spawned, <<ModeChangeEvent("RevisionDetails", "Log")>>, FALSE)
      [] key = "Tab" -> Effect(m, spawned, <<>>, FALSE)
      [] key = "CtrlF" -> Effect([m EXCEPT !.filter = FilterEnter(@)], spawned, <<>>, FALSE)
      [] key \in {"c", "r", "m"} ->
            IF current_entry_index = -1 THEN Effect(m, spawned, <<>>, FALSE)
            ELSE IF current_entry_index >= Len(m.entries) THEN Effect(m, spawned, <<>>, TRUE)
            ELSE Effect([m EXCEPT !.state = Waiting(LogEntryCommand(key))],
                        Append(spawned, Request(LogBackendCommand(key),
                                                m.entries[current_entry_index + 1])),
                        <<>>, FALSE)
      [] key \in {"R", "f", "p", "P", "g"} ->
            Effect([m EXCEPT !.state = Waiting(LogPlainCommand(key))],
                   Append(spawned, Request(LogBackendCommand(key), "")), <<>>, FALSE)
      [] OTHER -> Effect(m, spawned, <<>>, FALSE)

\* the key dispatch at the end of on_key, for the mode m after the pagination
LogOnKeyDispatch(m, key, current_entry_index, spawned) ==
    CASE key = "Enter" ->
            IF current_entry_index = -1 THEN Effect(m, spawned, <<>>, FALSE)
            ELSE IF current_entry_index >= Len(m.entries) THEN Effect(m, spawned, <<>>, TRUE)
            ELSE Effect(m, spawned, <<ModeChangeEvent("RevisionDetails", "Log")>>, FALSE)
      [] key = "Tab" -> Effect(m, spawned, <<>>, FALSE)
      [] key = "CtrlF" -> Effect([m EXCEPT !.filter = FilterEnter(@)], spawned, <<>>, FALSE)
      [] key \in {"c", "r", "m"} /\ m.state.tag = "Idle" ->
            IF current_entry_index = -1 THEN Effect(m, spawned, <<>>, FALSE)
            ELSE IF current_entry_index >= Len(m.entries) THEN Effect(m, spawned, <<>>, TRUE)
            ELSE Effect([m EXCEPT !.state = Waiting(LogEntryCommand(key))],
                        Append(spawned, Request(LogBackendCommand(key),
                                                m.entries[current_entry_index + 1])),
                        <<>>, FALSE)
      [] key \in {"R", "f", "p", "P", "g"} /\ m.state.tag = "Idle" ->
            Effect([m EXCEPT !.state = Waiting(LogPlainCommand(key))],
                   Append(spawned, Request(LogBackendCommand(key), "")), <<>>, FALSE)
      [] OTHER -> Effect(m, spawned, <<>>, FALSE)

\* Mode::on_key of Log mode
LogOnKey(m, key) ==
    IF m.filter.focus THEN LogOnKeyFilter(m, key)
    ELSE LET cursor == SelectOnKey(m.cursor, Len(m.visible), key)
             selected == [m EXCEPT !.cursor = cursor]
             current_entry_index == GetVisibleIndex(m.visible, cursor)
         IN  IF LogPaginates(selected, current_entry_index)
             THEN LogOnKeyDispatch([selected EXCEPT !.state = LogPaginationState(selected)],
                                   key, current_entry_index,
                                   <<PageRequest(Len(m.entries))>>)
             ELSE LogOnKeyDispatch(selected, key, current_entry_index, <<>>)

\* a truncate that keeps the whole list
TruncateNothing(entries, len) == entries

\* Vec::truncate
Truncate(entries, len) == SubSeq(entries, 1, Min(len, Len(entries)))

\* a merge that keeps the entries when the result is an error
LogMergeKeepingEntries(m, response) ==
    IF response.ok
    THEN [m EXCEPT !.entries = Truncate(m.entries, response.start) \o response.entries]
    ELSE [m EXCEPT !.output = OutputSet(response.error)]

\* the merge of a Refresh result into the entries and the output
LogMerge(m, response) ==
    IF response.ok
    THEN [m EXCEPT !.entries = Truncate(m.entries, response.start) \o response.entries]
    ELSE [m EXCEPT !.entries = <<>>, !.output = OutputSet(response.error)]

\* a re-filtering that leaves the cursor where it was
LogRefilterWithoutClamp(m) == [m EXCEPT !.visible = FilterFilter(m.filter, m.entries)]

\* the re-filtering and cursor clamp that end on_response
LogRefilter(m) ==
    LET visible == FilterFilter(m.filter, m.entries)
    IN  [m EXCEPT !.visible = visible, !.cursor = SaturateCursor(m.cursor, Len(visible))]

\* on_response without the unwrap of the variant: any response is merged
LogOnResponseUnchecked(m, response) ==
    LET cleared == [m EXCEPT !.output = OutputSet("")]
        idle == IF cleared.state.tag = "Waiting"
                THEN [cleared EXCEPT !.state = Idle] ELSE cleared
        merged == IF idle.state.tag = "Idle" THEN LogMerge(idle, response) ELSE idle
    IN  Effect(LogRefilter(merged), <<>>, <<>>, FALSE)

\* Mode::on_response of Log mode
LogOnResponse(m, response) ==
    IF response.mode # "Log" THEN Effect(m, <<>>, <<>>, TRUE)
    ELSE LET cleared == [m EXCEPT !.output = OutputSet("")]
             idle == IF cleared.state.tag = "Waiting"
                     THEN [cleared EXCEPT !.state = Idle] ELSE cleared
             merged == IF idle.state.tag = "Idle" THEN LogMerge(idle, response) ELSE idle
         IN  Effect(LogRefilter(merged), <<>>, <<>>, FALSE)

\* Mode::is_waiting_response of Log mode
LogIsWaitingResponse(m) == m.state.tag = "Waiting"

\* Mode::draw of Log mode: what is drawn below the filter line
LogDraw(m) ==
    IF m.output.text = "" THEN [what |-> "select_menu", visible |-> m.visible]
    ELSE [what |-> "output", text |-> m.output.text]

(***************************************************************************)
(* Diff mode (diff.rs).                                                    *)
(***************************************************************************)
\* Mode::default
DiffModeDefault == [state |-> "Idle", output |-> OutputSet(<<>>), from |-> "Log"]

\* an on_enter that keeps the mode it was entered from before
DiffOnEnterKeepingFrom(d, from) ==
    IF d.state = "Waiting" THEN Effect(d, <<>>, <<>>, FALSE)
    ELSE Effect([d EXCEPT !.state = "Waiting", !.output = OutputSet(<<>>)],
                <<>>, <<>>, FALSE)

\* Mode::on_enter of Diff mode
DiffOnEnter(d, from) ==
    IF d.state = "Waiting" THEN Effect(d, <<>>, <<>>, FALSE)
    ELSE Effect([d EXCEPT !.state = "Waiting", !.from = from, !.output = OutputSet(<<>>)],
                <<>>, <<>>, FALSE)

\* Mode::on_key of Diff mode
DiffOnKey(d, key) ==
    IF d.state = "Idle" /\ OutputLineCount(d.output) > 1
    THEN Effect([d EXCEPT !.output = OutputOnKey(@, AvailableHeight, key)], <<>>, <<>>, FALSE)
    ELSE Effect(d, <<>>, <<>>, FALSE)

\* an on_response that applies the result only to a mode that was Waiting
DiffOnResponseWhenWaiting(d, response) ==
    IF response.mode # "Diff" THEN Effect(d, <<>>, <<>>, TRUE)
    ELSE LET info == FormatFilesDiff(response.text)
         IN  IF d.state # "Waiting" THEN Effect(d, <<>>, <<>>, FALSE)
             ELSE IF info.panic THEN Effect([d EXCEPT !.state = "Idle"], <<>>, <<>>, TRUE)
             ELSE Effect([d EXCEPT !.state = "Idle", !.output = OutputSet(info.text)],
                         <<>>, <<>>, FALSE)

\* Mode::on_response of Diff mode
DiffOnResponse(d, response) ==
    IF response.mode # "Diff" THEN Effect(d, <<>>, <<>>, TRUE)
    ELSE LET idle == IF d.state = "Waiting" THEN [d EXCEPT !.state = "Idle"] ELSE d
             info == FormatFilesDiff(response.text)
         IN  IF idle.state # "Idle" THEN Effect(idle, <<>>, <<>>, FALSE)
             ELSE IF info.panic THEN Effect(idle, <<>>, <<>>, TRUE)
             ELSE Effect([idle EXCEPT !.output = OutputSet(info.text)], <<>>, <<>>, FALSE)

\* Mode::is_waiting_response of Diff mode
DiffIsWaitingResponse(d) == d.state = "Waiting"

(***************************************************************************)
(* The application around the modes: the active mode, the worker threads,  *)
(* the event channel and its dispatch loop; and the parser run.            *)
(*                                                                         *)
(* The two modes share no field.  A behaviour follows one of them, the     *)
(* subject; the other one is then any other mode of the application: it    *)
(* can be made the active mode and its responses travel through the        *)
(* channel, but its fields are not followed.                               *)
(***************************************************************************)
VARIABLES
    subject,    \* the mode the behaviour follows: "Log" or "Diff"
    log,        \* Log mode's fields
    diff,       \* Diff mode's fields
    current,    \* the kind of the active mode
    workers,    \* the worker threads alive, in spawn order
    channel,    \* the events sent and not yet dispatched, oldest first
    panicked,   \* the UI thread panicked: the process is gone
    last,       \* the handler or step taken last, with its input
    pin,        \* the parser run: the lines fed so far
    prun,       \* the parser run: parse_state, files_diff, and a panic
    pdone,      \* the parser run: the loop has ended
    pmarkup     \* the parser run: what format_files_diff returned

vars ==
    <<subject, log, diff, current, workers, channel, panicked, last,
      pin, prun, pdone, pmarkup>>

modeVars == <<subject, log, diff, current, workers, channel, panicked, last>>

parseVars == <<pin, prun, pdone, pmarkup>>

NoEvent == ModeChangeEvent("None", "None")

\* the record kept in last: the step's name, the key or event it was given,
\* and the wait state and the entry count of the mode before it
Step(name, key, event, state, len) ==
    [name |-> name, key |-> key, event |-> event, pre |-> state, pre_len |-> len]

DiffPre(d) == [tag |-> d.state, op |-> "None"]

ParseInit ==
    /\ pin = <<>>
    /\ prun = ParseRun(ParseStart, <<>>, FALSE)
    /\ pdone = FALSE
    /\ pmarkup = <<>>

ModeInit ==
    /\ subject \in {"Log", "Diff"}
    /\ log = LogModeDefault
    /\ diff = DiffModeDefault
    /\ current = "RevisionDetails"
    /\ workers = <<>>
    /\ channel = <<>>
    /\ panicked = FALSE
    /\ last = Step("init", "", NoEvent, Idle, 0)

Init == ModeInit /\ ParseInit

\* room for the threads and events a handler adds, the channel being ch
HasRoom(eff, ch) ==
    /\ Len(workers) + Len(eff.spawned) <= MaxWorkers
    /\ Len(ch) + Len(eff.sent) <= MaxChannel

\* a handler of Log mode ran with effect eff, the channel being ch before it
ApplyLog(eff, ch) ==
    /\ HasRoom(eff, ch)
    /\ log' = eff.mode
    /\ workers' = workers \o eff.spawned
    /\ channel' = ch \o eff.sent
    /\ panicked' = eff.panic
    /\ diff' = diff

\* a handler of Diff mode ran with effect eff, the channel being ch before it
ApplyDiff(eff, ch) ==
    /\ HasRoom(eff, ch)
    /\ diff' = eff.mode
    /\ workers' = workers \o eff.spawned
    /\ channel' = ch \o eff.sent
    /\ panicked' = eff.panic
    /\ log' = log

\* the application makes mode `to` the active one and calls its on_enter
ChangeMode(to, from, ch) ==
    /\ current' = to
    /\ CASE to = "Log" /\ subject = "Log" ->
              /\ ApplyLog(LogOnEnter(log), ch)
              /\ last' = Step("log.on_enter", "", NoEvent, log.state, Len(log.entries))
         [] to = "Diff" /\ subject = "Diff" ->
              /\ ApplyDiff(DiffOnEnter(diff, from), ch)
              /\ last' = Step("diff.on_enter", "", NoEvent, DiffPre(diff), 0)
         [] OTHER ->
              /\ channel' = ch
              /\ last' = Step("other.on_enter", "", NoEvent, Idle, 0)
              /\ UNCHANGED <<log, diff, workers, panicked>>

\* the user switches to another mode
UserEnterMode(to) ==
    /\ ~panicked
    /\ ChangeMode(to, current, channel)
    /\ UNCHANGED <<subject, parseVars>>

\* the dispatch loop takes a mode change from the channel
DispatchModeChange ==
    /\ ~panicked
    /\ channel # <<>>
    /\ Head(channel).kind = "ModeChange"
    /\ ChangeMode(Head(channel).mode, Head(channel).from, Tail(channel))
    /\ UNCHANGED <<subject, parseVars>>

\* a key goes to Log mode, the active mode
LogKey(key) ==
    /\ ~panicked
    /\ current = "Log"
    /\ subject = "Log"
    /\ ApplyLog(LogOnKey(log, key), channel)
    /\ last' = Step("log.on_key", key, NoEvent, log.state, Len(log.entries))
    /\ UNCHANGED <<subject, current, parseVars>>

\* a key goes to Diff mode, the active mode
DiffKey(key) ==
    /\ ~panicked
    /\ current = "Diff"
    /\ subject = "Diff"
    /\ ApplyDiff(DiffOnKey(diff, key), channel)
    /\ last' = Step("diff.on_key", key, NoEvent, DiffPre(diff), 0)
    /\ UNCHANGED <<subject, current, parseVars>>

\* the active mode's on_response is called with the event
Deliver(event, ch) ==
    CASE current = "Log" /\ subject = "Log" ->
            /\ ApplyLog(LogOnResponse(log, event), ch)
            /\ last' = Step("log.on_response", "", event, log.state, Len(log.entries))
      [] current = "Diff" /\ subject = "Diff" ->
            /\ ApplyDiff(DiffOnResponse(diff, event), ch)
            /\ last' = Step("diff.on_response", "", event, DiffPre(diff), 0)
      [] OTHER ->
            /\ channel' = ch
            /\ last' = Step("other.on_response", "", NoEvent, Idle, 0)
            /\ UNCHANGED <<log, diff, workers, panicked>>

\* the dispatch loop takes a response that matches the active mode
DispatchResponse ==
    /\ ~panicked
    /\ channel # <<>>
    /\ Head(channel).kind = "Response"
    /\ Head(channel).mode = current
    /\ Deliver(Head(channel), Tail(channel))
    /\ UNCHANGED <<subject, current, parseVars>>

\* the dispatch loop takes a response that does not match the active mode
DropResponse ==
    /\ ~panicked
    /\ channel # <<>>
    /\ Head(channel).kind = "Response"
    /\ Head(channel).mode # current
    /\ channel' = Tail(channel)
    /\ last' = Step("drop", "", NoEvent, Idle, 0)
    /\ UNCHANGED <<subject, log, diff, current, workers, panicked, parseVars>>

\* a dispatch loop without the routing by tag: the active mode's on_response
\* gets whatever response arrives
DispatchUnrouted ==
    /\ ~panicked
    /\ channel # <<>>
    /\ Head(channel).kind = "Response"
    /\ current \in {"Log", "Diff"}
    /\ Deliver(Head(channel), Tail(channel))
    /\ UNCHANGED <<subject, current, parseVars>>

\* the results backend.log may return: Ok((start, entries)) within the
\* bounds, or Err
LogResults ==
    {ResponseEvent("Log", TRUE, s, <<>>, "", <<>>) : s \in 0..MaxEntries}
    \cup {ResponseEvent("Log", TRUE, s, <<e>>, "", <<>>) :
            s \in 0..(MaxEntries - 1), e \in LogEntries}
    \cup {ResponseEvent("Log", FALSE, 0, <<>>, LogError, <<>>)}

\* worker i ends, having sent the response
WorkerEnds(i, response) ==
    /\ Len(channel) < MaxChannel
    /\ channel' = Append(channel, response)
    /\ workers' = SubSeq(workers, 1, i - 1) \o SubSeq(workers, i + 1, Len(workers))

\* a worker that calls backend.log whether or not its command succeeded
WorkerCommandThenLog(i, ok) ==
    /\ ~panicked
    /\ i \in 1..Len(workers)
    /\ workers[i].pc = "cmd"
    /\ ok \/ workers[i].cmd # "None"
    /\ workers' = [workers EXCEPT ![i].pc = "log"]
    /\ channel' = channel
    /\ last' = Step("worker.command", IF ok THEN "ok" ELSE "err", NoEvent, Idle, 0)
    /\ UNCHANGED <<subject, log, diff, current, panicked, parseVars>>

\* worker i runs its command f; when f fails the and_then is skipped and the
\* error is sent
WorkerCommand(i, ok) ==
    /\ ~panicked
    /\ i \in 1..Len(workers)
    /\ workers[i].pc = "cmd"
    /\ ok \/ workers[i].cmd # "None"
    /\ IF ok
       THEN /\ workers' = [workers EXCEPT ![i].pc = "log"]
            /\ channel' = channel
       ELSE WorkerEnds(i, ResponseEvent("Log", FALSE, 0, <<>>, CommandError, <<>>))
    /\ last' = Step("worker.command", IF ok THEN "ok" ELSE "err", NoEvent, Idle, 0)
    /\ UNCHANGED <<subject, log, diff, current, panicked, parseVars>>

\* worker i runs backend.log and sends the result
WorkerLog(i, result) ==
    /\ ~panicked
    /\ i \in 1..Len(workers)
    /\ workers[i].pc = "log"
    /\ WorkerEnds(i, result)
    /\ last' = Step("worker.log", "", NoEvent, Idle, 0)
    /\ UNCHANGED <<subject, log, diff, current, panicked, parseVars>>

\* a response for the mode that is not the subject arrives from its worker,
\* while that mode is on screen
OtherSource(response) ==
    /\ ~panicked
    /\ response.mode # subject
    /\ current = response.mode
    /\ \A i \in 1..Len(channel) : channel[i].mode # response.mode
    /\ Len(channel) < MaxChannel
    /\ channel' = Append(channel, response)
    /\ last' = Step("other.source", "", NoEvent, Idle, 0)
    /\ UNCHANGED <<subject, log, diff, current, workers, panicked, parseVars>>

\* a diff text arrives from its source, for the diff view on screen
DiffSource(text) ==
    /\ ~panicked
    /\ subject = "Diff"
    /\ current = "Diff"
    /\ \A i \in 1..Len(channel) : channel[i].mode # "Diff"
    /\ Len(channel) < MaxChannel
    /\ channel' = Append(channel, ResponseEvent("Diff", TRUE, 0, <<>>, "", text))
    /\ last' = Step("diff.source", "", NoEvent, Idle, 0)
    /\ UNCHANGED <<subject, log, diff, current, workers, panicked, parseVars>>

\* the responses of the mode that is not the subject
OtherResponses ==
    {ResponseEvent("Diff", TRUE, 0, <<>>, "", <<>>),
     ResponseEvent("Log", TRUE, 0, <<>>, "", <<>>)}

WorkerStep ==
    \E i \in 1..MaxWorkers :
        \/ \E ok \in BOOLEAN : WorkerCommand(i, ok)
        \/ \E result \in LogResults : WorkerLog(i, result)

SourceStep ==
    \/ \E text \in DiffTexts : DiffSource(text)
    \/ \E response \in OtherResponses : OtherSource(response)

UserStep ==
    \/ \E to \in ModeKinds : UserEnterMode(to)
    \/ \E key \in Keys : LogKey(key)
    \/ \E key \in Keys : DiffKey(key)

Next ==
    \/ UserStep
    \/ DispatchModeChange
    \/ DispatchResponse
    \/ DropResponse
    \/ WorkerStep
    \/ SourceStep

Spec == Init /\ [][Next]_vars

\* the same application with a dispatch loop that does not route by tag
NextUnrouted ==
    \/ UserStep
    \/ DispatchModeChange
    \/ DispatchUnrouted
    \/ WorkerStep
    \/ SourceStep

SpecUnrouted == Init /\ [][NextUnrouted]_vars

\* the application as Log mode lives in it
LogInit == Init /\ subject = "Log"

LogNext ==
    \/ \E to \in ModeKinds : UserEnterMode(to)
    \/ \E key \in Keys : LogKey(key)
    \/ DispatchModeChange
    \/ DispatchResponse
    \/ DropResponse
    \/ WorkerStep
    \/ \E response \in OtherResponses : OtherSource(response)

\* Log mode's application with its scheduling: every worker thread runs to
\* its end and the dispatch loop takes every event of the channel
FairLogSpec ==
    /\ LogInit
    /\ [][LogNext]_vars
    /\ WF_vars(WorkerStep)
    /\ WF_vars(DispatchModeChange)
    /\ WF_vars(DispatchResponse)
    /\ WF_vars(DropResponse)

(***************************************************************************)
(* The parser run: format_files_diff fed one line at a time.               *)
(***************************************************************************)
\* one iteration of the loop of format_files_diff, for the next line
ParseLine(line) ==
    /\ ~pdone
    /\ ~prun.panic
    /\ Len(pin) < MaxLines
    /\ pin' = Append(pin, line)
    /\ prun' = ParseStep(prun, line)
    /\ UNCHANGED <<pdone, pmarkup, modeVars>>

\* the text ends: the loop is left and files_diff.output() returned
ParseFinish ==
    /\ ~pdone
    /\ ~prun.panic
    /\ pdone' = TRUE
    /\ pmarkup' = FilesDiffOutput(prun.files)
    /\ UNCHANGED <<pin, prun, modeVars>>

ParseNext ==
    \/ \E line \in Vocabulary : ParseLine(line)
    \/ ParseFinish

\* the parser belongs to Diff mode
ParseRunInit == Init /\ subject = "Diff"

ParseSpec == ParseRunInit /\ [][ParseNext]_vars

(***************************************************************************)
(* on_response on its own: the handler applied to a mode in any of its     *)
(* states and to any matching response.                                    *)
(***************************************************************************)
\* enum WaitOperation
WaitOperations == {"Refresh", "Checkout", "Merge", "Fetch", "Pull", "Push", "Reset"}

\* enum State of Log mode
LogStates == {Idle} \cup {Waiting(op) : op \in WaitOperations}

\* the entry lists within the bound
EntryLists == UNION {[1..n -> LogEntries] : n \in 0..MaxEntries}

\* Log mode with the given fields, its visible indices being those of the
\* filter
LogModeWith(state, entries, text, filter, cursor) ==
    [state |-> state, entries |-> entries, output |-> OutputSet(text),
     visible |-> FilterFilter(filter, entries), cursor |-> cursor, filter |-> filter]

\* the values of Log mode: an error on screen comes with an empty list, and
\* the cursor is on a visible entry or at 0
LogModes ==
    UNION {{LogModeWith(f[1], f[2], f[3], [focus |-> f[4], text |-> f[5]], cursor) :
                cursor \in 0..Max(Len(FilterFilter([focus |-> f[4], text |-> f[5]], f[2])) - 1, 0)} :
            f \in {g \in LogStates \X EntryLists \X {"", CommandError, LogError}
                            \X BOOLEAN \X {"", "c"} :
                        g[2] = <<>> \/ g[3] = ""}}

\* the values of Diff mode before a text is shown: Idle or Waiting, entered
\* from any mode; the values with a text on screen follow by on_response
DiffModes ==
    {[state |-> state, output |-> OutputSet(<<>>), from |-> from] :
        state \in {"Idle", "Waiting"}, from \in ModeKinds}

\* the Refresh responses Log mode may be given: the results of log() and the
\* error of a failed command
LogRefreshes == LogResults \cup {ResponseEvent("Log", FALSE, 0, <<>>, CommandError, <<>>)}

\* the subject is the active mode, in any of its values
HandlerInit ==
    /\ subject \in {"Log", "Diff"}
    /\ current = subject
    /\ log \in IF subject = "Log" THEN LogModes ELSE {LogModeDefault}
    /\ diff \in IF subject = "Diff" THEN DiffModes ELSE {DiffModeDefault}
    /\ workers = <<>>
    /\ channel = <<>>
    /\ panicked = FALSE
    /\ last = Step("init", "", NoEvent, Idle, 0)
    /\ ParseInit

\* on_response of Log mode, the active mode, is called with a Refresh response
LogResponds(response) ==
    /\ ~panicked
    /\ subject = "Log"
    /\ current = "Log"
    /\ ApplyLog(LogOnResponse(log, response), channel)
    /\ last' = Step("log.on_response", "", response, log.state, Len(log.entries))
    /\ UNCHANGED <<subject, current, parseVars>>

\* on_response of Diff mode, the active mode, is called with a diff text
DiffResponds(text) ==
    /\ ~panicked
    /\ subject = "Diff"
    /\ current = "Diff"
    /\ ApplyDiff(DiffOnResponse(diff, ResponseEvent("Diff", TRUE, 0, <<>>, "", text)), channel)
    /\ last' = Step("diff.on_response", "", ResponseEvent("Diff", TRUE, 0, <<>>, "", text),
                    DiffPre(diff), 0)
    /\ UNCHANGED <<subject, current, parseVars>>

HandlerNext ==
    \/ \E response \in LogRefreshes : LogResponds(response)
    \/ \E text \in DiffTexts : DiffResponds(text)

HandlerSpec == HandlerInit /\ [][HandlerNext]_vars

(***************************************************************************)
(* Properties.                                                             *)
(***************************************************************************)
\* the responses of Log mode's workers that are queued in the channel
LogResponsesQueued ==
    {i \in 1..Len(channel) : channel[i].kind = "Response" /\ channel[i].mode = "Log"}

\* C1: on_enter of a mode that is already Waiting is a no-op, in Log mode and
\* in Diff mode: no worker is spawned and the mode's wait state, output,
\* entries and remembered `from` mode stay as they are.
C1_OnEnterWhileWaitingIsNoOp ==
    [][/\ (last'.name = "log.on_enter" /\ log.state.tag = "Waiting")
            => (log' = log /\ workers' = workers)
       /\ (last'.name = "diff.on_enter" /\ diff.state = "Waiting")
            => (diff' = diff /\ workers' = workers)]_vars

\* Log mode was re-entered while it waited for a checkout
C1_Witness ==
    /\ last.name = "log.on_enter"
    /\ last.pre = Waiting("Checkout")
    /\ log.state = Waiting("Checkout")

\* Diff mode was re-entered, from another mode, while it waited
C1_WitnessDiff ==
    /\ last.name = "diff.on_enter"
    /\ last.pre.tag = "Waiting"
    /\ diff.from # current

\* C2: Log mode never has two backend operations at once: the workers alive
\* and their responses not yet dispatched are at most one.
C2_SingleFlight ==
    subject = "Log" => Len(workers) + Cardinality(LogResponsesQueued) <= 1

\* a command key was pressed while the one worker was still running
C2_Witness ==
    /\ last.name = "log.on_key"
    /\ last.key \in CommandKeys
    /\ last.pre.tag = "Waiting"
    /\ Len(workers) = 1

\* the wait operation the claim gives each command key
C3_Operation(key) ==
    CASE key = "c" -> "Checkout"
      [] key = "r" -> "Reset"
      [] key = "m" -> "Merge"
      [] key = "R" -> "Reset"
      [] key = "f" -> "Fetch"
      [] key = "p" -> "Pull"
      [] key = "P" -> "Push"
      [] key = "g" -> "Push"

\* the backend command the claim gives each command key
C3_Command(key) ==
    CASE key = "c" -> "checkout"
      [] key = "r" -> "reset"
      [] key = "m" -> "merge"
      [] key = "R" -> "reset"
      [] key = "f" -> "fetch"
      [] key = "p" -> "pull"
      [] key = "P" -> "push"
      [] key = "g" -> "push_gerrit"

\* the index of the entry under the cursor, -1 when there is none
C3_Selected == IF log.cursor < Len(log.visible) THEN log.visible[log.cursor + 1] ELSE -1

\* the revision the claim gives the command of a key
C3_Revision(key) ==
    IF key \in {"c", "r", "m"} THEN log.entries[C3_Selected + 1] ELSE ""

\* C3: in Log mode, Idle and the filter without focus, each command key moves
\* to the matching Waiting(op) and spawns exactly one worker for that backend
\* command (with the selected entry's hash for c, r and m when an entry is
\* selected), for every cursor position, the last loaded entry included.
C3_CommandKeysStartTheirOperation ==
    [][(/\ last'.name = "log.on_key"
        /\ last'.key \in CommandKeys
        /\ log.state.tag = "Idle"
        /\ ~log.filter.focus
        /\ (last'.key \in {"c", "r", "m"} => C3_Selected # -1))
        => /\ log'.state = Waiting(C3_Operation(last'.key))
           /\ workers' = Append(workers, Request(C3_Command(last'.key),
                                                 C3_Revision(last'.key)))]_vars

\* C4: while Log mode is Waiting(op), no key spawns a backend worker or
\* changes op.
C4_KeysWhileWaitingStartNothing ==
    [][(last'.name = "log.on_key" /\ log.state.tag = "Waiting")
        => (workers' = workers /\ log'.state = log.state)]_vars

\* the checkout key was pressed, the cursor on the last loaded entry, while
\* the mode waited for a fetch
C4_Witness ==
    /\ last.name = "log.on_key"
    /\ last.key = "c"
    /\ last.pre = Waiting("Fetch")
    /\ log.state = Waiting("Fetch")
    /\ ~log.filter.focus
    /\ log.cursor < Len(log.visible)
    /\ log.visible[log.cursor + 1] + 1 = Len(log.entries)

\* C5: after on_response with Ok((s, N)) the entry list is the first
\* min(s, len(E)) entries of the list E before it, followed by N.
C5_RefreshMerge ==
    [][(last'.name = "log.on_response" /\ last'.event.mode = "Log" /\ last'.event.ok)
        => log'.entries =
             SubSeq(log.entries, 1, Min(last'.event.start, Len(log.entries)))
             \o last'.event.entries]_vars

\* a page (1, <<e>>) arrived for a list of two entries: the second entry was
\* cut off and e appended
C5_Witness ==
    /\ last.name = "log.on_response"
    /\ last.event.ok
    /\ last.event.start = 1
    /\ Len(last.event.entries) = 1
    /\ last.pre_len = 2
    /\ Len(log.entries) = 2

\* C6: after on_response with Err(message) Log mode is Idle, its entry list
\* is empty, its output text is the message, which is what is drawn, and
\* on_response spawned no worker.
C6_ErrorResponse ==
    [][(last'.name = "log.on_response" /\ last'.event.mode = "Log" /\ ~last'.event.ok)
        => /\ log'.state = Idle
           /\ log'.entries = <<>>
           /\ log'.output.text = last'.event.error
           /\ LogDraw(log') = [what |-> "output", text |-> last'.event.error]
           /\ workers' = workers]_vars

\* a failed checkout was answered while entries were loaded
C6_Witness ==
    /\ last.name = "log.on_response"
    /\ ~last.event.ok
    /\ last.event.error = CommandError
    /\ last.pre = Waiting("Checkout")
    /\ last.pre_len > 0
    /\ log.entries = <<>>

\* C7, as claimed: after every on_response of Log mode the filter has been
\* re-applied to the entries and 0 <= cursor < visible_count, also when
\* visible_count is 0.
C7_CursorBelowVisibleCount ==
    (last.name = "log.on_response" /\ ~panicked)
        => /\ log.visible = FilterFilter(log.filter, log.entries)
           /\ 0 <= log.cursor
           /\ log.cursor < Len(log.visible)

\* C7, amended: after every on_response of Log mode the filter has been
\* re-applied to the entries, and the cursor is below visible_count when
\* visible_count > 0 and is 0 when visible_count is 0.
C7_CursorClamped ==
    (last.name = "log.on_response" /\ ~panicked)
        => /\ log.visible = FilterFilter(log.filter, log.entries)
           /\ Len(log.visible) > 0 => (0 <= log.cursor /\ log.cursor < Len(log.visible))
           /\ Len(log.visible) = 0 => log.cursor = 0

\* a response left entries of which the filter shows none
C7_Witness ==
    /\ last.name = "log.on_response"
    /\ last.event.ok
    /\ Len(log.entries) > 0
    /\ Len(log.visible) = 0
    /\ log.cursor = 0

\* C8: every time Log mode enters Waiting(op) it eventually returns to Idle,
\* the workers and the dispatch loop being scheduled fairly, whatever the
\* user does, switching to another mode and back included.
C8_WaitingLeadsToIdle == (log.state.tag = "Waiting") ~> (log.state.tag = "Idle")

\* the dispatch loop hands the active mode, the one followed, a response of
\* another mode
MismatchedDelivery ==
    /\ ~panicked
    /\ channel # <<>>
    /\ Head(channel).kind = "Response"
    /\ current = subject
    /\ Head(channel).mode # current
    /\ last'.name \in {"log.on_response", "diff.on_response"}

\* C9: a response whose variant does not match the receiving mode (a Diff
\* response given to Log mode's on_response, a Log response given to Diff
\* mode's on_response) makes the call panic; the mode's state, entries,
\* output and cursor are as before the call, no worker is started and the
\* response is gone from the channel, kept nowhere for a later delivery.
C9_MismatchedResponseFailsFast ==
    [][MismatchedDelivery =>
        /\ panicked'
        /\ log' = log
        /\ diff' = diff
        /\ workers' = workers
        /\ channel' = Tail(channel)]_vars

\* Log mode, holding entries, was given a Diff response and panicked
C9_Witness ==
    /\ panicked
    /\ last.name = "log.on_response"
    /\ last.event.mode = "Diff"
    /\ log.entries # <<>>

\* Diff mode was given a Log response and panicked
C9_WitnessDiff ==
    /\ panicked
    /\ last.name = "diff.on_response"
    /\ last.event.mode = "Log"

\* C10: when the first line of the input is not a file-introduction line
\* (ordinary content, a "---" line, a "+++" line, a hunk marker, an empty
\* line), format_files_diff panics on that line and returns no document; and
\* a document returned for an input of at least one line is never empty.
C10_StartRule ==
    /\ (pin # <<>> /\ ~StartsWith(pin[1], STR_DIFF_GIT)) => (prun.panic /\ ~pdone)
    /\ (pdone /\ pin # <<>>) => (prun.files # <<>> /\ pmarkup # <<>>)

\* the parse of a text whose first line is ordinary content has panicked
C10_Witness ==
    /\ pin = <<LINE_ADDED>>
    /\ prun.panic
    /\ ~pdone

\* a document was returned for a text that starts with a file introduction
C10_WitnessDocument ==
    /\ pdone
    /\ pin # <<>>
    /\ pmarkup # <<>>

\* the line fed to the parser last
C11_Line == pin[Len(pin)]

\* the new-file range of a hunk marker: what follows " +" up to the next space
C11_NewRange(line) ==
    LET rest == StrFrom(line, Find(line, STR_SP_PLUS) + 2)
        space == Find(rest, <<" ">>)
    IN  IF space = -1 THEN rest ELSE StrTo(rest, space)

\* the starting line number the claim gives a hunk marker
C11_Number(line) ==
    LET comma == Find(C11_NewRange(line), STR_COMMA)
    IN  IF comma = -1 THEN 0 ELSE DecimalValue(StrTo(C11_NewRange(line), comma))

\* the first text fragment the claim gives the hunk of a hunk marker
C11_Context(line) ==
    LET pos == Find(line, STR_SP_AT_AT_SP)
    IN  IF pos = -1 THEN <<>> ELSE StrFrom(line, pos + 4) \o NL

\* C11: for every hunk marker line fed where a hunk may start (after the
\* "+++" line or after hunk content), the hunk gets as starting line number
\* the integer between the "+" of the new-file range and that range's comma,
\* and 0 when that range has no comma, whatever the context text after the
\* closing "@@ " is (a comma in it included); the context text is the first
\* text fragment of the hunk.
C11_HunkLineNumber ==
    [][(/\ pin' # pin
        /\ StartsWith(C11_Line', STR_AT_AT_SP)
        /\ prun.parse_state.tag \in {"FileEnd", "LineContent"})
        => /\ ~prun'.panic
           /\ prun'.parse_state =
                PState("LineHeader", <<>>, "Modified", C11_Number(C11_Line'))
           /\ LET file_diff == prun'.files[Len(prun'.files)]
              IN  file_diff.lines[Len(file_diff.lines)] =
                    [line_number |-> C11_Number(C11_Line'),
                     text |-> C11_Context(C11_Line')]]_vars

\* a hunk marker with counts and context was taken: number 10, context kept
C11_WitnessCounted ==
    /\ pin # <<>>
    /\ C11_Line = LINE_HUNK
    /\ ~prun.panic
    /\ prun.parse_state.line_number = 10

\* the line the markup gives a hunk, followed by the hunk's body
C12_Hunk(filename, line_diff) ==
    <<"@", "@", "@", "N", "@", "-", "-", "-", " ">> \o filename
    \o <<":", "L", "i", "n", "e", " ">> \o DecimalString(line_diff.line_number)
    \o <<" ", "-", "-", "-", "@", "\n">> \o line_diff.text

RECURSIVE C12_Hunks(_, _)
\* the markup of the hunks of a file record from hunk i on
C12_Hunks(file_diff, i) ==
    IF i > Len(file_diff.lines) THEN <<>>
    ELSE C12_Hunk(file_diff.filename, file_diff.lines[i]) \o C12_Hunks(file_diff, i + 1)

\* the markup of a file record: the three header lines, then its hunks
C12_File(file_diff) ==
    <<"@", "@", "@", "L", "\n">>
    \o <<"@", "@", "@", "H">>
    \o (IF file_diff.mode = "Deleted" THEN <<"D", "e", "l", "e", "t", "e", "d">>
        ELSE <<"M", "o", "d", "i", "f", "i", "e", "d">>)
    \o <<":", " ">> \o file_diff.filename \o <<"\n">>
    \o <<"@", "@", "@", "L", "\n">>
    \o C12_Hunks(file_diff, 1)

RECURSIVE C12_Document(_, _)
\* the markup of the file records from record i on, in input order
C12_Document(files, i) ==
    IF i > Len(files) THEN <<>> ELSE C12_File(files[i]) \o C12_Document(files, i + 1)

\* the number of lines of a text that begin with a prefix
C12_LinesStarting(text, prefix) ==
    Cardinality({i \in 1..Len(text) :
        /\ i = 1 \/ text[i - 1] = "\n"
        /\ i + Len(prefix) - 1 <= Len(text)
        /\ SubSeq(text, i, i + Len(prefix) - 1) = prefix})

RECURSIVE C12_HunkCount(_, _)
\* the number of hunk records of the file records from record i on
C12_HunkCount(files, i) ==
    IF i > Len(files) THEN 0 ELSE Len(files[i].lines) + C12_HunkCount(files, i + 1)

\* no body line of a hunk begins with a sentinel of the markup
C12_BodiesPlain ==
    \A f \in 1..Len(prun.files) : \A h \in 1..Len(prun.files[f].lines) :
        C12_LinesStarting(prun.files[f].lines[h].text, <<"@", "@", "@">>) = 0

\* the markup's "@@@H" lines are as many as the file records and its "@@@N"
\* lines as many as the hunk records
C12_Counts ==
    /\ C12_LinesStarting(pmarkup, <<"@", "@", "@", "H">>) = Len(prun.files)
    /\ C12_LinesStarting(pmarkup, <<"@", "@", "@", "N">>) = C12_HunkCount(prun.files, 1)

\* C12, as claimed: for every successfully parsed document the markup is, per
\* file record in input order, an "@@@L" line, the "@@@H<Mode>: <filename>"
\* line, an "@@@L" line, and per hunk the "@@@N@--- <filename>:Line <n> ---@"
\* line followed by the hunk's body verbatim; and the "@@@H" lines are as
\* many as the file records, the "@@@N" lines as many as the hunks.
C12_MarkupAndCounts ==
    pdone => (pmarkup = C12_Document(prun.files, 1) /\ C12_Counts)

\* C12, amended: the markup is that concatenation for every successfully
\* parsed document; the two counts hold when no body line of a hunk begins
\* with a sentinel ("@@@"), since bodies are written verbatim.
C12_Markup ==
    pdone => /\ pmarkup = C12_Document(prun.files, 1)
             /\ C12_BodiesPlain => C12_Counts

\* a document of one file with two hunks, the first with context and body,
\* was serialized
C12_Witness ==
    /\ pdone
    /\ Len(prun.files) = 1
    /\ Len(prun.files[1].lines) = 2
    /\ prun.files[1].lines[1].text = <<"c", "t", "x", "\n", "+", "x", "\n">>
    /\ C12_BodiesPlain

\* a document of two file records was serialized
C12_WitnessTwoFiles ==
    /\ pdone
    /\ Len(prun.files) = 2
    /\ Len(prun.files[1].lines) = 1

\* a key is handled by Log mode, Idle and its filter without focus, and leaves
\* the cursor on the last loaded entry: the pagination fetch is issued
C13_PaginationIssued ==
    /\ last'.name = "log.on_key"
    /\ log.state.tag = "Idle"
    /\ ~log.filter.focus
    /\ log'.cursor < Len(log.visible)
    /\ log.visible[log'.cursor + 1] + 1 = Len(log.entries)

C14_Without(i) == SubSeq(workers, 1, i - 1) \o SubSeq(workers, i + 1, Len(workers))

\* C14: a worker of request() runs its command first. When the command
\* succeeds nothing is sent yet and the worker goes on to backend.log; when
\* it fails the worker ends without calling log and the command's error is
\* its response. A worker that ran backend.log ends and sends its result. So
\* each worker sends exactly one Log response, as its last step.
C14_CommandThenLog ==
    [][/\ (last'.name = "worker.command" /\ last'.key = "ok")
            => /\ channel' = channel
               /\ \E i \in 1..Len(workers) :
                    /\ workers[i].pc = "cmd"
                    /\ workers' = [workers EXCEPT ![i].pc = "log"]
       /\ (last'.name = "worker.command" /\ last'.key = "err")
            => /\ channel' = Append(channel,
                        ResponseEvent("Log", FALSE, 0, <<>>, CommandError, <<>>))
               /\ \E i \in 1..Len(workers) :
                    /\ workers[i].pc = "cmd"
                    /\ workers[i].cmd # "None"
                    /\ workers' = C14_Without(i)
       /\ (last'.name = "worker.log")
            => /\ Len(channel') = Len(channel) + 1
               /\ SubSeq(channel', 1, Len(channel)) = channel
               /\ channel'[Len(channel')] \in LogResults
               /\ \E i \in 1..Len(workers) :
                    /\ workers[i].pc = "log"
                    /\ workers' = C14_Without(i)
       /\ (Len(channel') > Len(channel) /\ channel'[Len(channel')].kind = "Response"
           /\ channel'[Len(channel')].mode = "Log" /\ subject = "Log")
            => Len(workers') = Len(workers) - 1]_vars

\* a checkout failed: its worker has ended, the error is its one response
C14_Witness ==
    /\ last.name = "worker.command"
    /\ last.key = "err"
    /\ log.state = Waiting("Checkout")
    /\ workers = <<>>
    /\ channel = <<ResponseEvent("Log", FALSE, 0, <<>>, CommandError, <<>>)>>

\* a merge succeeded: its worker is about to call backend.log, nothing sent
C14_WitnessSucceeded ==
    /\ last.name = "worker.command"
    /\ last.key = "ok"
    /\ log.state = Waiting("Merge")
    /\ Len(workers) = 1
    /\ workers[1].pc = "log"
    /\ workers[1].start = 0
    /\ channel = <<>>

\* C15: on_enter of a mode that is Idle. Log mode moves to Waiting(Refresh),
\* its output text is cleared, its entries are kept and exactly one worker is
\* spawned, which asks for log page 0; Diff mode moves to Waiting, its output
\* is cleared and the mode it was entered from is recorded. In both modes
\* is_waiting_response is true afterwards.
C15_OnEnterWhileIdle ==
    [][/\ (last'.name = "log.on_enter" /\ log.state.tag = "Idle")
            => /\ log'.state = Waiting("Refresh")
               /\ log'.output.text = ""
               /\ log'.entries = log.entries
               /\ workers' = Append(workers, Worker("None", "", 0, "cmd"))
               /\ LogIsWaitingResponse(log')
       /\ (last'.name = "diff.on_enter" /\ diff.state = "Idle")
            => /\ diff'.state = "Waiting"
               /\ diff'.output = [text |-> <<>>, scroll |-> 0]
               /\ diff'.from = (IF channel' = channel THEN current ELSE Head(channel).from)
               /\ workers' = workers
               /\ DiffIsWaitingResponse(diff')]_vars

\* Log mode, Idle with entries loaded, was entered: the entries are kept and
\* the one worker is about to refresh page 0
C15_Witness ==
    /\ last.name = "log.on_enter"
    /\ last.pre = Idle
    /\ last.pre_len > 0
    /\ Len(log.entries) = last.pre_len
    /\ log.state = Waiting("Refresh")
    /\ workers = <<Worker("None", "", 0, "cmd")>>

\* Diff mode, Idle, was entered from the revision details
C15_WitnessDiff ==
    /\ last.name = "diff.on_enter"
    /\ last.pre.tag = "Idle"
    /\ diff.state = "Waiting"
    /\ diff.from = "RevisionDetails"

\* C16: while a mode is Waiting, on_key leaves what is shown as it is: in
\* Diff mode the state and the output (text and scroll), in Log mode the wait
\* state, the entry list and the output. And whatever the state, Log mode's
\* entry list and output text and Diff mode's output text are changed by
\* on_enter and on_response only.
C16_StableWhileWaiting ==
    [][/\ (last'.name = "diff.on_key" /\ diff.state = "Waiting") => diff' = diff
       /\ (last'.name = "log.on_key" /\ log.state.tag = "Waiting")
            => /\ log'.state = log.state
               /\ log'.entries = log.entries
               /\ log'.output = log.output
       /\ (log'.entries # log.entries \/ log'.output.text # log.output.text)
            => last'.name \in {"log.on_enter", "log.on_response"}
       /\ (diff'.output.text # diff.output.text)
            => last'.name \in {"diff.on_enter", "diff.on_response"}]_vars

\* a key went to Log mode's focused filter while the mode waited with an
\* error message on screen
C16_Witness ==
    /\ last.name = "log.on_key"
    /\ last.pre.tag = "Waiting"
    /\ log.state.tag = "Waiting"
    /\ log.filter.focus
    /\ log.output.text # ""

\* a scroll key went to Diff mode while it waited
C16_WitnessDiff ==
    /\ last.name = "diff.on_key"
    /\ last.key = "Down"
    /\ last.pre.tag = "Waiting"
    /\ diff.state = "Waiting"

\* a scroll key moved Diff mode's output while it was Idle
C16_WitnessScroll ==
    /\ last.name = "diff.on_key"
    /\ last.pre.tag = "Idle"
    /\ diff.output.scroll > 0

\* C17: in both modes, when on_response returns from a Refresh response of the
\* mode's own variant, the mode is Idle whatever its state was on arrival and
\* the result has been applied.  Log mode: an Ok result leaves the entries
\* truncated at the start index and extended by the page, with no output; an
\* Err result leaves no entry and the error as the output.  Diff mode: the
\* output is the serialized markup of the received text, scrolled to its top.
C17_OnResponseAppliesResult ==
    [][/\ (last'.name = "log.on_response" /\ last'.event.mode = "Log")
            => /\ ~panicked'
               /\ log'.state = Idle
               /\ IF last'.event.ok
                  THEN /\ log'.entries =
                            SubSeq(log.entries, 1, Min(last'.event.start, Len(log.entries)))
                            \o last'.event.entries
                       /\ log'.output = OutputSet("")
                  ELSE /\ log'.entries = <<>>
                       /\ log'.output = OutputSet(last'.event.error)
       /\ (last'.name = "diff.on_response" /\ last'.event.mode = "Diff" /\ ~panicked')
            => /\ diff'.state = "Idle"
               /\ diff'.output = OutputSet(FormatFilesDiff(last'.event.text).text)
               /\ diff'.from = diff.from]_vars

\* Log mode was Idle with one entry when a page of one entry starting at index
\* 1 arrived: it is Idle with both entries
C17_Witness ==
    /\ last.name = "log.on_response"
    /\ last.pre = Idle
    /\ last.pre_len = 1
    /\ last.event.ok
    /\ last.event.start = 1
    /\ Len(log.entries) = 2
    /\ log.state = Idle

\* Log mode was Waiting for a merge when the command's error arrived
C17_WitnessWaiting ==
    /\ last.name = "log.on_response"
    /\ last.pre = Waiting("Merge")
    /\ ~last.event.ok
    /\ log.state = Idle
    /\ log.entries = <<>>
    /\ log.output.text = CommandError

\* Diff mode was Idle when a well-formed text arrived: its markup is shown
C17_WitnessDiff ==
    /\ last.name = "diff.on_response"
    /\ last.pre.tag = "Idle"
    /\ ~panicked
    /\ diff.state = "Idle"
    /\ diff.output.text # <<>>

\* the transition table of the parser: the state entered from a state on an
\* event, "Abort" for a pair the table does not list
C18_Table(state, event) ==
    CASE state = "Start" /\ event = "FileDiffStart" -> "FileHeader"
      [] state = "FileHeader" /\ event = "FileDiffMode" -> "FileMode"
      [] state = "FileHeader" /\ event # "FileDiffMode" -> "FileContent"
      [] state = "FileMode" -> "FileContent"
      [] state = "FileContent" /\ event = "FileDiffEnd" -> "FileEnd"
      [] state = "FileContent" /\ event # "FileDiffEnd" -> "FileContent"
      [] state = "FileEnd" /\ event = "LineDiffStart" -> "LineHeader"
      [] state = "LineHeader" /\ event = "LineDiffContent" -> "LineContent"
      [] state = "LineContent" /\ event = "LineDiffContent" -> "LineContent"
      [] state = "LineContent" /\ event = "FileDiffStart" -> "FileHeader"
      [] state = "LineContent" /\ event = "LineDiffStart" -> "LineHeader"
      [] OTHER -> "Abort"

\* C18: the parser's transition function is the table.  For every line that
\* is classified as an event, the state entered is the one the table lists
\* for the current state and that event; for a pair the table does not list
\* the parse of the whole document is aborted: no state is entered and the
\* document is left as it was.
C18_TransitionTable ==
    [][pin' # pin
         => LET event == ParseEventNew(prun.parse_state, pin'[Len(pin')]).tag
                next == C18_Table(prun.parse_state.tag, event)
            IN  event # "Panic"
                  => IF next = "Abort"
                     THEN /\ prun'.panic
                          /\ prun'.files = prun.files
                          /\ prun'.parse_state = prun.parse_state
                     ELSE /\ ~prun'.panic
                          /\ prun'.parse_state.tag = next]_vars

\* a second hunk marker right after a hunk marker aborted the parse
C18_Witness ==
    /\ prun.panic
    /\ prun.parse_state.tag = "LineHeader"
    /\ pin[Len(pin)] = LINE_HUNK

\* a line beginning with "---" within a hunk body aborted the parse
C18_WitnessBody ==
    /\ prun.panic
    /\ prun.parse_state.tag = "LineContent"
    /\ pin[Len(pin)] = LINE_OLD

\* an ordinary line right after the "+++" line aborted the parse
C18_WitnessFileEnd ==
    /\ prun.panic
    /\ prun.parse_state.tag = "FileEnd"
    /\ pin[Len(pin)] = LINE_ADDED

\* a listed pair: a new file started within a hunk body
C18_WitnessListed ==
    /\ ~prun.panic
    /\ Len(pin) > 1
    /\ prun.parse_state.tag = "FileHeader"
    /\ Len(prun.files) = 2

\* the wait operation of the request that runs backend command cmd
C19_Operation(cmd) ==
    CASE cmd = "None" -> "Refresh"
      [] cmd = "checkout" -> "Checkout"
      [] cmd = "reset" -> "Reset"
      [] cmd = "merge" -> "Merge"
      [] cmd = "fetch" -> "Fetch"
      [] cmd = "pull" -> "Pull"
      [] cmd \in {"push", "push_gerrit"} -> "Push"

\* the requests of Log mode in flight: worker threads alive and responses
\* queued
C19_InFlight == Len(workers) + Cardinality(LogResponsesQueued)

\* at most one request is in flight, Log mode is Waiting for it, and it is
\* the request of the operation waited for
C19_Paired ==
    /\ C19_InFlight <= 1
    /\ C19_InFlight = 1 => log.state.tag = "Waiting"
    /\ workers # <<>> => log.state.op = C19_Operation(workers[1].cmd)
    /\ \A i \in LogResponsesQueued :
            channel[i].error = CommandError => log.state.op # "Refresh"

\* C19: request/response pairing in Log mode.  A worker is spawned only by
\* the step that takes Log mode from Idle to Waiting(op), with nothing else in
\* flight; until on_response the mode stays in that Waiting(op) and spawns
\* nothing; and the response on_response merges when it leaves Waiting(op) is
\* the only one in flight, the worker gone.  Hence the merged response is the
\* one of the worker spawned on entering that Waiting(op), never an older one.
C19_RequestResponsePairing ==
    [][subject = "Log"
         => /\ C19_Paired'
            /\ Len(workers') > Len(workers)
                 => /\ C19_InFlight = 0
                    /\ log.state = Idle
                    /\ log'.state.tag = "Waiting"
                    /\ Len(workers') = 1
            /\ (log.state.tag = "Waiting" /\ last'.name # "log.on_response")
                 => /\ log'.state = log.state
                    /\ Len(workers') <= Len(workers)
            /\ (last'.name = "log.on_response" /\ log.state.tag = "Waiting")
                 => /\ workers = <<>>
                    /\ LogResponsesQueued = {1}
                    /\ last'.event = channel[1]
                    /\ C19_InFlight' = 0
                    /\ log'.state = Idle]_vars

\* Log mode left Waiting(Fetch) through on_response with the result of the
\* log() that followed the fetch; nothing is in flight
C19_Witness ==
    /\ subject = "Log"
    /\ last.name = "log.on_response"
    /\ last.pre = Waiting("Fetch")
    /\ last.event.ok
    /\ log.state = Idle
    /\ C19_InFlight = 0

\* the error of a failed command is queued while Log mode waits for that
\* command, the user having left Log mode and come back meanwhile
C19_WitnessQueued ==
    /\ subject = "Log"
    /\ current = "Log"
    /\ last.name = "log.on_enter"
    /\ log.state = Waiting("Pull")
    /\ workers = <<>>
    /\ \E i \in LogResponsesQueued : channel[i].error = CommandError

\* the parents exist: a file record in FileMode, LineHeader and LineContent,
\* and a hunk record in the most recent file in LineContent
C20_ParentExists ==
    /\ prun.parse_state.tag \in {"FileMode", "LineHeader", "LineContent"}
         => prun.files # <<>>
    /\ prun.parse_state.tag = "LineContent"
         => prun.files[Len(prun.files)].lines # <<>>

\* the file records before the most recent one are those of before
C20_EarlierFilesKept(before, after) ==
    /\ Len(after) = Len(before)
    /\ \A i \in 1..(Len(before) - 1) : after[i] = before[i]

\* C20: the parser's parent-exists invariant.  After every line, a parser in
\* FileMode, LineHeader or LineContent has a document with at least one file
\* record, and in LineContent the most recent file record has at least one
\* hunk record.  The run stops only where ParseState::line rejects the line:
\* the document's own methods never fail, and each of them changes the most
\* recently created parent only (the mode of the last file, the hunks of the
\* last file, the text of the last hunk of the last file).
C20_ParentExistsAndOnlyLineRejects ==
    [][pin' # pin
         => LET line == pin'[Len(pin')]
                before == prun.files
                after == prun'.files
                n == Len(before)
            IN  /\ C20_ParentExists'
                /\ prun'.panic
                     => /\ ParseStateLine(prun.parse_state, line).tag = "Panic"
                        /\ after = before
                /\ ~prun'.panic
                     => CASE prun'.parse_state.tag = "FileHeader" ->
                                /\ Len(after) = n + 1
                                /\ SubSeq(after, 1, n) = before
                                /\ after[n + 1].lines = <<>>
                          [] prun'.parse_state.tag = "FileMode" ->
                                /\ C20_EarlierFilesKept(before, after)
                                /\ after[n] = [before[n] EXCEPT !.mode = "Deleted"]
                          [] prun'.parse_state.tag = "LineHeader" ->
                                /\ C20_EarlierFilesKept(before, after)
                                /\ after[n].filename = before[n].filename
                                /\ after[n].mode = before[n].mode
                                /\ Len(after[n].lines) = Len(before[n].lines) + 1
                                /\ SubSeq(after[n].lines, 1, Len(before[n].lines)) = before[n].lines
                          [] prun'.parse_state.tag = "LineContent" ->
                                LET k == Len(before[n].lines)
                                IN  /\ C20_EarlierFilesKept(before, after)
                                    /\ after[n] = [before[n] EXCEPT
                                                     !.lines[k].text = @ \o line \o NL]
                          [] OTHER -> after = before]_vars

\* the parser is in a hunk body of its first file, text appended to the hunk
C20_Witness ==
    /\ ~prun.panic
    /\ prun.parse_state.tag = "LineContent"
    /\ Len(prun.files) = 1
    /\ Len(prun.files[1].lines) = 1
    /\ prun.files[1].lines[1].text # <<>>

\* the parser entered FileMode: the one file record is marked Deleted
C20_WitnessFileMode ==
    /\ ~prun.panic
    /\ prun.parse_state.tag = "FileMode"
    /\ Len(prun.files) = 1
    /\ prun.files[1].mode = "Deleted"

\* a second file record was appended after a hunk body: the first record and
\* its hunk are kept
C20_WitnessSecondFile ==
    /\ ~prun.panic
    /\ prun.parse_state.tag = "FileHeader"
    /\ Len(prun.files) = 2
    /\ Len(prun.files[1].lines) = 1
    /\ prun.files[1].lines[1].text # <<>>
    /\ prun.files[2].lines = <<>>
RECURSIVE C21_Introduced(_, _)
\* the filenames of the lines from line i on that begin with the
\* file-introduction marker, in input order
C21_Introduced(lines, i) ==
    IF i > Len(lines) THEN <<>>
    ELSE (IF StartsWith(lines[i], STR_DIFF_GIT)
          THEN <<StrFrom(lines[i], Find(lines[i], STR_B_SLASH) + 3)>>
          ELSE <<>>)
         \o C21_Introduced(lines, i + 1)

\* C21: no file is lost by the parser.  For every input on which the parse
\* succeeds, the file records of the document, and the "@@@H" lines of the
\* markup, are as many as the input lines that begin with the
\* file-introduction marker, and each record carries the filename of its own
\* introduction line.
C21_NoFileLost ==
    pdone
      => /\ Len(prun.files) = Len(C21_Introduced(pin, 1))
         /\ C12_LinesStarting(pmarkup, DIFF_FORMAT_FILE_HEADER_CONTENT)
              = Len(C21_Introduced(pin, 1))
         /\ \A f \in 1..Len(prun.files) :
                prun.files[f].filename = C21_Introduced(pin, 1)[f]

====
